---------------------------- MODULE Spec2Model ----------------------------
(***************************************************************************)
(* Model of server.js, the Express gateway of the hospital management      *)
(* system.  The state is what the handlers act on: the rows of the         *)
(* appointments and patients tables and the accounts of the auth service   *)
(* (all held by the external backend), the mails handed to the mail        *)
(* service, the RESEND_API_KEY setting, and, per request being handled,    *)
(* the request body, the handler's locals, its position (the await it is   *)
(* suspended on) and its response.                                         *)
(*                                                                         *)
(* A handler runs from one await to the next without interruption, so      *)
(* every action is the code between two awaits: the completion of one      *)
(* remote call together with everything the handler does until it issues   *)
(* the next call or responds.  A remote call of the backend client         *)
(* resolves to a result (ok), resolves to { error } (error), or rejects    *)
(* (reject); which one is the backend's choice.                            *)
(*                                                                         *)
(* appointment_date is an instant in milliseconds (Date.getTime()), or     *)
(* InvalidDate for a string Date cannot parse (getTime() is NaN).          *)
(***************************************************************************)
EXTENDS Integers, FiniteSets, Sequences, TLC

\* ------------------------------------------------------------------ bounds
NumReq == 2          \* requests the server receives in one behaviour
MaxSkewMs == 1       \* requested instants lie 0..MaxSkewMs ms past the window edge
MaxFailedQueries == 1 \* count queries of one dashboard request that fail
NumDoctors == 2      \* rows of the doctors table, which no route writes

\* --------------------------------------------------------------- constants
WindowMs == 30 * 60000
MinPasswordLen == 6
InvalidDate == -1
NoPassword == -1
NoId == 0
NoStatus == 0
Null == -1

Req == 1 .. NumReq
Times == {0} \cup {WindowMs + e : e \in 0 .. MaxSkewMs}
Dates == Times \cup {InvalidDate}
DoctorNames == {"Dr Smith"}
Specialties == {"GP", "ENT"}
Contacts == {"555", "777"}
Passwords == {NoPassword, MinPasswordLen - 1, MinPasswordLen}
Outcomes == {"ok", "error", "reject"}
MailOutcomes == {"sent", "failed"}

\* `${doctor_name} (${doctor_specialty})`
FormatDoctor(name, specialty) == name \o " (" \o specialty \o ")"

\* doctor_name values a caller of POST /api/appointments may send: the route
\* stores the string as given, formatted or not.
StaffDoctorNames == DoctorNames \cup {FormatDoctor(n, "GP") : n \in DoctorNames}

VARIABLES appointments, patients, authUsers, emailsSent, apiKey, req

vars == <<appointments, patients, authUsers, emailsSent, apiKey, req>>

Fresh ==
  [route |-> "none", pc |-> "idle",
   doctor_name |-> "", doctor_specialty |-> "", appointment_date |-> InvalidDate,
   contact_number |-> "", password |-> NoPassword,
   existingPatient |-> NoId, authUser |-> NoId, newPatient |-> NoId,
   patient_id |-> NoId, appointment |-> NoId, mail |-> "none",
   status |-> NoStatus, error |-> "", results |-> <<>>, counts |-> <<>>]

Init ==
  /\ appointments = {}
  /\ patients = {}
  /\ authUsers = {}
  /\ emailsSent = 0
  /\ apiKey \in BOOLEAN
  /\ req = [r \in Req |-> Fresh]

\* ------------------------------------------------------------ the backend
NextId(table) == Cardinality(table) + 1

\* The conflict query with .lt in place of .lte.
ConflictQueryLt(key, lo, hi) ==
  {a \in appointments :
     /\ a.doctor_name = key
     /\ a.appointment_date >= lo
     /\ a.appointment_date < hi}

\* .from('appointments').select('id').eq('doctor_name', key)
\*   .gte('appointment_date', lo).lte('appointment_date', hi)
ConflictQuery(key, lo, hi) ==
  {a \in appointments :
     /\ a.doctor_name = key
     /\ a.appointment_date >= lo
     /\ a.appointment_date <= hi}

\* The patient lookup comparing contact_number with the request's email.
PatientQueryByEmail(c) == {p \in patients : p.contact_number = "a@x.com"}

\* .from('patients').select('id').eq('contact_number', c)
PatientQuery(c) == {p \in patients : p.contact_number = c}

\* The password check without its length test.
PasswordMissing(pw) == pw = NoPassword \/ pw = 0

\* !password || password.length < 6
PasswordRejected(pw) == pw = NoPassword \/ pw = 0 \/ pw < MinPasswordLen

\* ------------------------------------------------------------- responses
Respond(r, code, msg) ==
  [req[r] EXCEPT !.pc = "done", !.status = code, !.error = msg]

\* catch (err) { res.status(500).json({ error: err.message }) }
Catch(r, msg) == req' = [req EXCEPT ![r] = Respond(r, 500, msg)]

\* Request r is received: requests are numbered in their order of arrival.
Arrives(r) == req[r].pc = "idle" /\ \A q \in Req : q < r => req[q].pc # "idle"

\* ------------------------------------------- POST /api/public/book (141-250)
\* The clash detection placed after account creation: a conflict is answered
\* 409 with the auth account already created.
BookClashDetectionLate(r) ==
  /\ Arrives(r)
  /\ \E n \in DoctorNames, s \in Specialties, t \in Times, c \in Contacts,
        pw \in Passwords :
       LET got == [req[r] EXCEPT !.route = "book", !.doctor_name = n,
                                 !.doctor_specialty = s, !.appointment_date = t,
                                 !.contact_number = c, !.password = pw]
       IN IF ConflictQuery(FormatDoctor(n, s), t - WindowMs, t + WindowMs) # {}
          THEN /\ authUsers' = authUsers \cup {NextId(authUsers)}
               /\ req' = [req EXCEPT ![r] = [got EXCEPT !.authUser = NextId(authUsers),
                                                       !.pc = "done", !.status = 409,
                                                       !.error = "slot booked"]]
          ELSE /\ req' = [req EXCEPT ![r] = [got EXCEPT !.pc = "patientLookup"]]
               /\ UNCHANGED authUsers
  /\ UNCHANGED <<appointments, patients, emailsSent, apiKey>>

\* Lines 143-164: the body is read, the window computed and the conflict query
\* awaited.  toISOString() of an invalid Date throws a RangeError before any
\* backend call is made.
BookClashDetection(r) ==
  /\ Arrives(r)
  /\ \E n \in DoctorNames, s \in Specialties, t \in Dates, c \in Contacts,
        pw \in Passwords :
       LET got == [req[r] EXCEPT !.route = "book", !.doctor_name = n,
                                 !.doctor_specialty = s, !.appointment_date = t,
                                 !.contact_number = c, !.password = pw]
           thirtyMinsBefore == t - WindowMs
           thirtyMinsAfter == t + WindowMs
       IN \/ /\ t = InvalidDate
             /\ req' = [req EXCEPT ![r] = [got EXCEPT !.pc = "done", !.status = 500,
                                                     !.error = "RangeError"]]
          \/ /\ t # InvalidDate
             /\ \E o \in Outcomes :
                  IF o # "ok"
                  THEN req' = [req EXCEPT ![r] = [got EXCEPT !.pc = "done", !.status = 500,
                                                            !.error = "conflictError"]]
                  ELSE IF ConflictQuery(FormatDoctor(n, s), thirtyMinsBefore,
                                        thirtyMinsAfter) # {}
                  THEN req' = [req EXCEPT ![r] = [got EXCEPT !.pc = "done", !.status = 409,
                                                            !.error = "slot booked"]]
                  ELSE req' = [req EXCEPT ![r] = [got EXCEPT !.pc = "patientLookup"]]
  /\ UNCHANGED <<appointments, patients, authUsers, emailsSent, apiKey>>

\* Lines 166-184: the patient lookup resolves.  maybeSingle() yields an error
\* when more than one row matches.  The password is looked at only on the
\* branch that found no patient (line 180).
BookPatientLookup(r) ==
  /\ req[r].pc = "patientLookup"
  /\ \E o \in Outcomes :
       LET found == PatientQuery(req[r].contact_number) IN
       IF o # "ok" \/ Cardinality(found) > 1
       THEN Catch(r, "searchError")
       ELSE IF found # {}
       THEN \E p \in found :
              req' = [req EXCEPT ![r] = [@ EXCEPT !.existingPatient = p.id,
                                                  !.patient_id = p.id,
                                                  !.pc = "insertAppointment"]]
       ELSE IF PasswordRejected(req[r].password)
       THEN req' = [req EXCEPT ![r] = [@ EXCEPT !.pc = "done", !.status = 400,
                                               !.error = "password too short"]]
       ELSE req' = [req EXCEPT ![r] = [@ EXCEPT !.pc = "createUser"]]
  /\ UNCHANGED <<appointments, patients, authUsers, emailsSent, apiKey>>

\* Lines 186-201: auth.admin.createUser resolves.
BookCreateUser(r) ==
  /\ req[r].pc = "createUser"
  /\ \E o \in Outcomes :
       IF o # "ok"
       THEN Catch(r, "authError") /\ UNCHANGED authUsers
       ELSE /\ authUsers' = authUsers \cup {NextId(authUsers)}
            /\ req' = [req EXCEPT ![r] = [@ EXCEPT !.authUser = NextId(authUsers),
                                                  !.pc = "insertPatient"]]
  /\ UNCHANGED <<appointments, patients, emailsSent, apiKey>>

\* The patient insert with a rollback of the auth account when it fails.
BookInsertPatientRollback(r) ==
  /\ req[r].pc = "insertPatient"
  /\ \E o \in Outcomes :
       IF o # "ok"
       THEN Catch(r, "createError") /\ UNCHANGED patients
            /\ authUsers' = authUsers \ {req[r].authUser}
       ELSE /\ patients' = patients \cup
                 {[id |-> NextId(patients), contact_number |-> req[r].contact_number]}
            /\ req' = [req EXCEPT ![r] = [@ EXCEPT !.newPatient = NextId(patients),
                                                  !.patient_id = NextId(patients),
                                                  !.pc = "insertAppointment"]]
            /\ UNCHANGED authUsers
  /\ UNCHANGED <<appointments, emailsSent, apiKey>>

\* Lines 203-212: the patient insert resolves.
BookInsertPatient(r) ==
  /\ req[r].pc = "insertPatient"
  /\ \E o \in Outcomes :
       IF o # "ok"
       THEN Catch(r, "createError") /\ UNCHANGED patients
       ELSE /\ patients' = patients \cup
                 {[id |-> NextId(patients), contact_number |-> req[r].contact_number]}
            /\ req' = [req EXCEPT ![r] = [@ EXCEPT !.newPatient = NextId(patients),
                                                  !.patient_id = NextId(patients),
                                                  !.pc = "insertAppointment"]]
  /\ UNCHANGED <<appointments, authUsers, emailsSent, apiKey>>

\* The row an appointment insert stores.
AppointmentRow(pid, name, date) ==
  [id |-> NextId(appointments), patient_id |-> pid, doctor_name |-> name,
   appointment_date |-> date]

\* Lines 105-123 and 228-244 after a successful insert: with no RESEND_API_KEY
\* the handler responds 201 at once, else it awaits the send.
AfterInsert(r, cur) ==
  IF apiKey
  THEN req' = [req EXCEPT ![r] = [cur EXCEPT !.appointment = NextId(appointments),
                                          !.pc = "sendEmail"]]
  ELSE req' = [req EXCEPT ![r] = [cur EXCEPT !.appointment = NextId(appointments),
                                          !.pc = "done", !.status = 201]]

\* Lines 214-226: the appointment insert resolves.
BookInsertAppointment(r) ==
  /\ req[r].pc = "insertAppointment"
  /\ req[r].route = "book"
  /\ \E o \in Outcomes :
       IF o # "ok"
       THEN Catch(r, "apptError") /\ UNCHANGED appointments
       ELSE /\ appointments' = appointments \cup
                 {AppointmentRow(req[r].patient_id,
                                 FormatDoctor(req[r].doctor_name, req[r].doctor_specialty),
                                 req[r].appointment_date)}
            /\ AfterInsert(r, req[r])
  /\ UNCHANGED <<patients, authUsers, emailsSent, apiKey>>

\* The mail step without its own try/catch: a failed send reaches the handler's
\* catch and is answered 500.
SendEmailUncaught(r) ==
  /\ req[r].pc = "sendEmail"
  /\ \E m \in MailOutcomes :
       /\ emailsSent' = IF m = "sent" THEN emailsSent + 1 ELSE emailsSent
       /\ req' = [req EXCEPT ![r] = [@ EXCEPT !.mail = m, !.pc = "done",
                                             !.status = IF m = "sent" THEN 201 ELSE 500]]
  /\ UNCHANGED <<appointments, patients, authUsers, apiKey>>

\* Lines 106-123 and 229-244: resend.emails.send settles; a failure is logged
\* and the handler responds 201 with the appointment either way.
SendEmail(r) ==
  /\ req[r].pc = "sendEmail"
  /\ \E m \in MailOutcomes :
       /\ emailsSent' = IF m = "sent" THEN emailsSent + 1 ELSE emailsSent
       /\ req' = [req EXCEPT ![r] = [@ EXCEPT !.mail = m, !.pc = "done", !.status = 201]]
  /\ UNCHANGED <<appointments, patients, authUsers, apiKey>>

\* ---------------------------------------------- POST /api/appointments (92-127)
\* Lines 94-103: the body is read and the insert awaited; no query precedes it.
ApptInsert(r) ==
  /\ Arrives(r)
  /\ \E pid \in {NoId} \cup {p.id : p \in patients}, n \in StaffDoctorNames, t \in Times,
        o \in Outcomes :
       LET got == [req[r] EXCEPT !.route = "appt", !.patient_id = pid, !.doctor_name = n,
                                 !.appointment_date = t]
       IN IF o # "ok"
          THEN /\ req' = [req EXCEPT ![r] = [got EXCEPT !.pc = "done", !.status = 500,
                                                       !.error = "dbError"]]
               /\ UNCHANGED appointments
          ELSE /\ appointments' = appointments \cup {AppointmentRow(pid, n, t)}
               /\ AfterInsert(r, got)
  /\ UNCHANGED <<patients, authUsers, emailsSent, apiKey>>

\* -------------------------------------------------- POST /api/patients (56-69)
PatientCreate(r) ==
  /\ Arrives(r)
  /\ \E c \in Contacts, o \in Outcomes :
       LET got == [req[r] EXCEPT !.route = "patient", !.contact_number = c]
       IN IF o # "ok"
          THEN /\ req' = [req EXCEPT ![r] = [got EXCEPT !.pc = "done", !.status = 500,
                                                       !.error = "error"]]
               /\ UNCHANGED patients
          ELSE /\ patients' = patients \cup
                    {[id |-> NextId(patients), contact_number |-> c]}
               /\ req' = [req EXCEPT ![r] = [got EXCEPT !.newPatient = NextId(patients),
                                                       !.pc = "done", !.status = 201]]
  /\ UNCHANGED <<appointments, authUsers, emailsSent, apiKey>>

\* ------------------------------------------- GET /api/dashboard/stats (253-275)
\* The count a query's result carries: null when the result is { error }.
CountOf(o, n) == IF o = "ok" THEN n ELSE Null

\* count || 0
OrZero(c) == IF c = Null \/ c = 0 THEN 0 ELSE c

\* Start of the UTC day of an instant, and of the next day.
DayMs == 24 * 60 * 60000
DayStart(t) == (t \div DayMs) * DayMs

\* Promise.all over the four count queries: it rejects as soon as one of
\* them rejects; a query that resolves to { error } is a fulfilled promise.
DashboardStats(r) ==
  /\ Arrives(r)
  /\ \E os \in [1 .. 4 -> Outcomes], now \in {0, DayMs} :
       /\ Cardinality({i \in 1 .. 4 : os[i] # "ok"}) <= MaxFailedQueries
       /\ LET got == [req[r] EXCEPT !.route = "stats", !.results = os]
              today == {a \in appointments :
                          /\ a.appointment_date >= DayStart(now)
                          /\ a.appointment_date < DayStart(now) + DayMs}
          IN IF \E i \in 1 .. 4 : os[i] = "reject"
             THEN req' = [req EXCEPT ![r] = [got EXCEPT !.pc = "done", !.status = 500,
                                                       !.error = "error"]]
             ELSE req' = [req EXCEPT ![r] =
                    [got EXCEPT !.pc = "done", !.status = 200,
                                !.counts = <<OrZero(CountOf(os[1], Cardinality(patients))),
                                             OrZero(CountOf(os[2], NumDoctors)),
                                             OrZero(CountOf(os[3], Cardinality(appointments))),
                                             OrZero(CountOf(os[4], Cardinality(today)))>>]]
  /\ UNCHANGED <<appointments, patients, authUsers, emailsSent, apiKey>>

\* The response has been written: the request is over and its state is gone.
Finish(r) ==
  /\ req[r].pc = "done"
  /\ req' = [req EXCEPT ![r] = [Fresh EXCEPT !.pc = "closed"]]
  /\ UNCHANGED <<appointments, patients, authUsers, emailsSent, apiKey>>

\* ---------------------------------------------------------- specifications
Handle(r) ==
  \/ BookClashDetection(r)
  \/ BookPatientLookup(r)
  \/ BookCreateUser(r)
  \/ BookInsertPatient(r)
  \/ BookInsertAppointment(r)
  \/ SendEmail(r)
  \/ ApptInsert(r)
  \/ PatientCreate(r)
  \/ DashboardStats(r)
  \/ Finish(r)

\* Requests are handled as they arrive; their remote calls interleave.
Next == \E r \in Req : Handle(r)

Spec == Init /\ [][Next]_vars

\* Requests handled one at a time: a request is received only when no other
\* request is being handled.
Alone(r) == \A q \in Req \ {r} : req[q].pc \in {"idle", "closed"}

SeqNext ==
  \E r \in Req :
    \/ Alone(r) /\ BookClashDetection(r)
    \/ Alone(r) /\ BookPatientLookup(r)
    \/ Alone(r) /\ BookCreateUser(r)
    \/ Alone(r) /\ BookInsertPatient(r)
    \/ Alone(r) /\ BookInsertAppointment(r)
    \/ Alone(r) /\ SendEmail(r)
    \/ Alone(r) /\ ApptInsert(r)
    \/ Alone(r) /\ PatientCreate(r)
    \/ Alone(r) /\ DashboardStats(r)
    \/ Alone(r) /\ Finish(r)

SeqSpec == Init /\ [][SeqNext]_vars

\* Only public bookings arrive, and their remote calls interleave.
BookNext ==
  \E r \in Req :
    \/ BookClashDetection(r)
    \/ BookPatientLookup(r)
    \/ BookCreateUser(r)
    \/ BookInsertPatient(r)
    \/ BookInsertAppointment(r)
    \/ SendEmail(r)
    \/ Finish(r)

BookSpec == Init /\ [][BookNext]_vars

\* ------------------------------------------------------------------ claims
Done(r) == req[r].pc = "done"
Booked(r) == Done(r) /\ req[r].route = "book"
BackendErrors == {"conflictError", "searchError", "authError", "createError", "apptError"}
Dist(t, u) == IF t >= u THEN t - u ELSE u - t

\* The appointments other than the one request r inserted that have r's
\* formatted doctor name and lie 30 minutes or less from r's requested time.
Clashing(r) ==
  {a \in appointments :
     /\ a.id # req[r].appointment
     /\ a.doctor_name = FormatDoctor(req[r].doctor_name, req[r].doctor_specialty)
     /\ Dist(a.appointment_date, req[r].appointment_date) <= WindowMs}

\* The patient rows with r's contact number that r did not insert itself.
KnownPatients(r) ==
  {p \in patients : p.contact_number = req[r].contact_number /\ p.id # req[r].newPatient}

\* The password is absent or has fewer than 6 characters.
WeakPassword(pw) == pw = NoPassword \/ pw < MinPasswordLen

CreatedNothing(r) ==
  /\ req[r].authUser = NoId
  /\ req[r].newPatient = NoId
  /\ req[r].appointment = NoId
  /\ req[r].mail = "none"

\* C1 (as stated): a public booking with a parseable time, handled alone with
\* every backend call succeeding, is answered 409 when an appointment of the
\* same formatted doctor lies within 30 minutes (inclusive), and 201 otherwise.
C1_RejectOrAccept ==
  \A r \in Req :
    Booked(r) /\ req[r].appointment_date # InvalidDate /\ req[r].error \notin BackendErrors
      => req[r].status = IF Clashing(r) # {} THEN 409 ELSE 201

\* C1 (amended): such a booking is answered 409 exactly when an appointment of
\* the same formatted doctor lies within 30 minutes (inclusive); otherwise it
\* is answered 201 when its contact number matched a patient or its password
\* has at least 6 characters, and 400 when it did neither.
C1_RejectOrAcceptOrPassword ==
  \A r \in Req :
    Booked(r) /\ req[r].appointment_date # InvalidDate /\ req[r].error \notin BackendErrors
      => req[r].status =
           IF Clashing(r) # {} THEN 409
           ELSE IF KnownPatients(r) # {} \/ ~WeakPassword(req[r].password) THEN 201
           ELSE 400

\* A booking rejected 409 against an appointment exactly 30 minutes away, in a
\* state that also holds an accepted appointment.
C1_Witness ==
  \E r \in Req :
    /\ Booked(r) /\ req[r].status = 409
    /\ Clashing(r) # {}
    /\ \A a \in Clashing(r) : Dist(a.appointment_date, req[r].appointment_date) = WindowMs

\* C2: with requests handled one at a time through either appointment-creating
\* route, no two stored appointments with the same doctor name are 30 minutes
\* or less apart.
C2_SpacedEitherRoute ==
  \A a, b \in appointments :
    a # b /\ a.doctor_name = b.doctor_name
      => Dist(a.appointment_date, b.appointment_date) > WindowMs

\* C3: two public bookings with the same contact number never both create a
\* patient record, nor both an auth account, and the patients table never
\* holds two rows with one contact number.
C3_OnePatientPerContact ==
  /\ \A p, q \in patients : p.contact_number = q.contact_number => p = q
  /\ \A r, q \in Req :
       r # q /\ req[r].route = "book" /\ req[q].route = "book"
             /\ req[r].contact_number = req[q].contact_number
         => /\ ~(req[r].newPatient # NoId /\ req[q].newPatient # NoId)
            /\ ~(req[r].authUser # NoId /\ req[q].authUser # NoId)

\* C4 (as stated): a booking of a new patient with a parseable time and no
\* failing backend call, whose password is absent or shorter than 6
\* characters, is answered 400 and creates nothing.
C4_ShortPasswordIs400 ==
  \A r \in Req :
    Booked(r) /\ req[r].appointment_date # InvalidDate /\ req[r].error \notin BackendErrors
              /\ KnownPatients(r) = {} /\ WeakPassword(req[r].password)
      => req[r].status = 400 /\ CreatedNothing(r)

\* C4 (amended): a booking of a new patient whose password is absent or
\* shorter than 6 characters creates no auth account, no patient record, no
\* appointment and no mail, and is never answered 201; with a parseable time
\* and no failing backend call it is answered 409 when the slot clashes and
\* 400 otherwise.
C4_ShortPasswordCreatesNothing ==
  \A r \in Req :
    req[r].route = "book" /\ KnownPatients(r) = {} /\ WeakPassword(req[r].password)
      => /\ CreatedNothing(r)
         /\ req[r].status # 201
         /\ Done(r) /\ req[r].appointment_date # InvalidDate
                    /\ req[r].error \notin BackendErrors
              => req[r].status = IF Clashing(r) # {} THEN 409 ELSE 400

\* A new patient's booking with a short password answered 400.
C4_Witness ==
  \E r \in Req :
    /\ Booked(r) /\ req[r].status = 400
    /\ req[r].password = MinPasswordLen - 1
    /\ KnownPatients(r) = {}

\* C5: on both appointment-creating routes, once the insert has succeeded the
\* appointment is stored as requested and the response, when sent, is 201
\* carrying it, whatever the mail step did.
C5_EmailNeverChangesOutcome ==
  \A r \in Req :
    req[r].route \in {"appt", "book"} /\ req[r].appointment # NoId
      => /\ \E a \in appointments :
              /\ a.id = req[r].appointment
              /\ a.patient_id = req[r].patient_id
              /\ a.appointment_date = req[r].appointment_date
         /\ req[r].status \in {NoStatus, 201}
         /\ req[r].error = ""
         /\ Done(r) => req[r].status = 201
         /\ req[r].mail # "none" => Done(r) /\ apiKey

\* A request answered 201 after its mail failed to send.
C5_Witness ==
  \E r \in Req : Done(r) /\ req[r].mail = "failed" /\ req[r].status = 201

\* C6: a dashboard request is answered 200 exactly when all four count
\* queries succeeded, and 500 when any of them failed.
C6_AllOrNothing ==
  \A r \in Req :
    Done(r) /\ req[r].route = "stats"
      => req[r].status = IF \A i \in 1 .. 4 : req[r].results[i] = "ok" THEN 200 ELSE 500

\* C7: the step that answers a public booking with 409 is the request's first,
\* and it leaves the auth accounts, the patients, the appointments and the
\* mails sent as they were.
C7_ConflictCreatesNothing ==
  [][\A r \in Req :
       req'[r].status = 409 /\ req[r].status # 409
         => /\ req[r].pc = "idle"
            /\ CreatedNothing(r)'
            /\ UNCHANGED <<appointments, patients, authUsers, emailsSent>>]_vars

\* A public booking answered 409.
C7_Witness == \E r \in Req : Booked(r) /\ req[r].status = 409

\* C8: a public booking holds an auth account of its own only if no patient
\* row other than the one it inserted has its contact number; a booking whose
\* lookup found a patient creates no account and no patient, is never
\* answered 400, and its appointment carries the id of a patient that has
\* its contact number.
C8_AccountOnlyForNewPatient ==
  \A r \in Req :
    req[r].route = "book"
      => /\ req[r].authUser # NoId => req[r].existingPatient = NoId /\ KnownPatients(r) = {}
         /\ req[r].existingPatient # NoId
              => /\ req[r].authUser = NoId /\ req[r].newPatient = NoId
                 /\ req[r].status # 400
                 /\ \E p \in patients :
                      /\ p.id = req[r].existingPatient
                      /\ p.contact_number = req[r].contact_number
                 /\ \A a \in appointments :
                      a.id = req[r].appointment => a.patient_id = req[r].existingPatient

\* A booking with a rejected password accepted on a patient the lookup found.
C8_Witness ==
  \E r \in Req :
    /\ Booked(r) /\ req[r].status = 201
    /\ req[r].existingPatient # NoId
    /\ WeakPassword(req[r].password)

\* C9: a booking whose patient insert failed is answered 500 with no
\* appointment and no mail, and its auth account is still in the auth
\* service; a booking whose account creation failed is answered 500 with no
\* account, no patient and no appointment.
C9_NoCompensation ==
  \A r \in Req :
    /\ req[r].error = "createError"
         => /\ req[r].status = 500
            /\ req[r].authUser # NoId /\ req[r].authUser \in authUsers
            /\ req[r].newPatient = NoId /\ req[r].appointment = NoId
            /\ req[r].mail = "none"
    /\ req[r].error = "authError" => req[r].status = 500 /\ CreatedNothing(r)

\* A booking answered 500 after its patient insert failed.
C9_Witness ==
  \E r \in Req : Done(r) /\ req[r].error = "createError" /\ req[r].authUser \in authUsers

\* C10: with only public bookings, whose remote calls interleave, no two
\* stored appointments with the same formatted doctor name are 30 minutes or
\* less apart.
C10_SpacedUnderConcurrency ==
  \A a, b \in appointments :
    a.id # b.id /\ a.doctor_name = b.doctor_name
      => Dist(a.appointment_date, b.appointment_date) > WindowMs

==========================================================================
